---------------------------- MODULE Spec2Model ----------------------------
(***************************************************************************)
(* Model of the bencode codec (bencoding.py: decode, encode) and of the    *)
(* metadata reader built on it (torrent_parser.py: TorrentFile).           *)
(*                                                                         *)
(* A bytes object is a sequence of byte codes (integers).  Python indexes  *)
(* from 0, TLA+ sequences from 1: every index below is the Python index    *)
(* and At / Slice do the shift.  The model covers ASCII input (codes below *)
(* 128): str.decode() and int() of non-ASCII text are not modelled.        *)
(*                                                                         *)
(* A decoded value is a record [t, v]:                                     *)
(*   int   [t |-> "int",  n |-> n]                                         *)
(*   bytes [t |-> "str",  s |-> <<byte, ...>>]                             *)
(*   list  [t |-> "list", items |-> <<value, ...>>]                        *)
(*   dict  [t |-> "dict", pairs |-> << <<key bytes, value>>, ... >>]       *)
(* A dict keeps its pairs in insertion order, as a Python dict does; its   *)
(* keys are pairwise different.                                            *)
(*                                                                         *)
(* A call that raises is an outcome [ok |-> FALSE, err |-> kind]; a call   *)
(* that returns is [ok |-> TRUE, v |-> value, next |-> offset, strs |-> S] *)
(* where strs is a history field: one record per decodeStr call made on    *)
(* the way, with the length its prefix declared and the length it got.     *)
(***************************************************************************)
EXTENDS Integers, Sequences, FiniteSets, TLC

\* ------------------------------------------------------------------ bytes

TOKEN_INT == 105
TOKEN_LIST == 108
TOKEN_DICT == 100
TOKEN_STR_SPLIT == 58
TOKEN_END == 101

\* string.digits, as byte codes "0".."9"
digits == 48..57

ChZero == 48
ChMinus == 45
ChPlus == 43
ChUnderscore == 95
\* the bytes int() strips as whitespace: space, \t, \n, \v, \f, \r
Whitespace == {32, 9, 10, 11, 12, 13}

\* encoded[i]; the caller has checked i < len(encoded)
At(b, i) == b[i + 1]

\* b[lo:hi] for 0 <= lo: a slice is clipped to the buffer, it never raises
Slice(b, lo, hi) ==
    LET top == IF hi < Len(b) THEN hi ELSE Len(b)
    IN  IF lo >= top THEN << >> ELSE SubSeq(b, lo + 1, top)

SetMin(S) == CHOOSE x \in S : \A y \in S : x <= y

\* the `for i in range(index, len(encoded))` search of decodeInt and
\* decodeStr: the first offset at or after index holding tok; `end` keeps
\* its initial 0 when the loop finds none
FindToken(b, index, tok) ==
    LET hits == {i \in index..(Len(b) - 1) : At(b, i) = tok}
    IN  IF hits = {} THEN 0 ELSE SetMin(hits)

\* ------------------------------------------------------- int() and str()

RECURSIVE StripLeft(_)
StripLeft(s) ==
    IF s # << >> /\ Head(s) \in Whitespace THEN StripLeft(Tail(s)) ELSE s

RECURSIVE StripRight(_)
StripRight(s) ==
    IF s # << >> /\ s[Len(s)] \in Whitespace
    THEN StripRight(SubSeq(s, 1, Len(s) - 1))
    ELSE s

\* digits, with single underscores allowed between two digits
DigitBodyOk(s) ==
    /\ s # << >>
    /\ s[1] \in digits
    /\ s[Len(s)] \in digits
    /\ \A k \in 1..Len(s) : s[k] \in digits \/ s[k] = ChUnderscore
    /\ \A k \in 1..(Len(s) - 1) : ~(s[k] = ChUnderscore /\ s[k + 1] = ChUnderscore)

RECURSIVE DigitBodyValue(_, _)
DigitBodyValue(s, acc) ==
    IF s = << >> THEN acc
    ELSE IF Head(s) = ChUnderscore THEN DigitBodyValue(Tail(s), acc)
    ELSE DigitBodyValue(Tail(s), acc * 10 + (Head(s) - ChZero))

\* int(text), base 10: surrounding whitespace, one optional sign, digits
IntParse(text) ==
    LET s == StripRight(StripLeft(text))
        signed == s # << >> /\ s[1] \in {ChMinus, ChPlus}
        body == IF signed THEN Tail(s) ELSE s
    IN  IF ~DigitBodyOk(body) THEN [ok |-> FALSE]
        ELSE [ok |-> TRUE,
              v |-> IF signed /\ s[1] = ChMinus
                    THEN 0 - DigitBodyValue(body, 0)
                    ELSE DigitBodyValue(body, 0)]

RECURSIVE NatStr(_)
NatStr(n) ==
    IF n < 10 THEN <<ChZero + n>>
    ELSE Append(NatStr(n \div 10), ChZero + (n % 10))

\* str(n).encode()
IntStr(n) == IF n < 0 THEN <<ChMinus>> \o NatStr(0 - n) ELSE NatStr(n)

\* ----------------------------------------------------------------- decode

Raise(kind) == [ok |-> FALSE, err |-> kind]
Return(value, nxt, strs) == [ok |-> TRUE, v |-> value, next |-> nxt, strs |-> strs]

IntV(n) == [t |-> "int", n |-> n]
StrV(s) == [t |-> "str", s |-> s]
ListV(items) == [t |-> "list", items |-> items]
DictV(pairs) == [t |-> "dict", pairs |-> pairs]

decodeInt(encoded, index) ==
    IF index >= Len(encoded) THEN Raise("IndexError")
    ELSE IF At(encoded, index) # TOKEN_INT THEN Raise("WrongToken")
    ELSE LET end == FindToken(encoded, index, TOKEN_END)
             number == Slice(encoded, index + 1, end)
             out == IntParse(number)
         IN  IF end = 0 THEN Raise("NoEndToken")
             ELSE IF Len(number) > 1 /\ number[1] = ChZero THEN Raise("LeadingZero")
             ELSE IF number = <<ChMinus, ChZero>> THEN Raise("NegativeZero")
             ELSE IF ~out.ok THEN Raise("InvalidLiteral")
             ELSE Return(IntV(out.v), end + 1, {})

\* decodeStr with the slice of line 64 one byte short
decodeStrShortSlice(encoded, index) ==
    IF index >= Len(encoded) THEN Raise("IndexError")
    ELSE IF At(encoded, index) \notin digits THEN Raise("NoDigits")
    ELSE LET end == FindToken(encoded, index, TOKEN_STR_SPLIT)
             length == IntParse(Slice(encoded, index, end))
             string == Slice(encoded, end + 1, end + length.v)
         IN  IF end = 0 THEN Raise("NoSplitToken")
             ELSE IF ~length.ok THEN Raise("InvalidLiteral")
             ELSE Return(StrV(string), end + length.v + 1,
                         {[at |-> index, declared |-> length.v, got |-> Len(string)]})

decodeStr(encoded, index) ==
    IF index >= Len(encoded) THEN Raise("IndexError")
    ELSE IF At(encoded, index) \notin digits THEN Raise("NoDigits")
    ELSE LET end == FindToken(encoded, index, TOKEN_STR_SPLIT)
             length == IntParse(Slice(encoded, index, end))
             string == Slice(encoded, end + 1, end + length.v + 1)
         IN  IF end = 0 THEN Raise("NoSplitToken")
             ELSE IF ~length.ok THEN Raise("InvalidLiteral")
             ELSE Return(StrV(string), end + length.v + 1,
                         {[at |-> index, declared |-> length.v, got |-> Len(string)]})

\* output[key] = value: a key already present keeps its place
DictSet(pairs, key, value) ==
    IF \E k \in 1..Len(pairs) : pairs[k][1] = key
    THEN [k \in 1..Len(pairs) |->
            IF pairs[k][1] = key THEN <<key, value>> ELSE pairs[k]]
    ELSE Append(pairs, <<key, value>>)

\* fuel is a measure, not program state: it counts the loop iterations the
\* call may still start.  A step with no fuel left ends as "NoProgress",
\* which stands for a loop that runs on without consuming the buffer.
RECURSIVE decodeNext(_, _, _)
RECURSIVE ListLoopStuck(_, _, _, _, _)
RECURSIVE ListLoop(_, _, _, _, _)
RECURSIVE DictLoop(_, _, _, _, _)

\* the loop of decodeList with the cursor never moved on to the offset
\* decodeNext returned
ListLoopStuck(encoded, current_index, output, strs, fuel) ==
    IF current_index >= Len(encoded) THEN Raise("IndexError")
    ELSE IF At(encoded, current_index) = TOKEN_END
    THEN Return(ListV(output), current_index + 1, strs)
    ELSE IF fuel = 0 THEN Raise("NoProgress")
    ELSE LET r == decodeNext(encoded, current_index, fuel - 1)
         IN  IF ~r.ok THEN r
             ELSE IF r.next >= Len(encoded) THEN Raise("MissingEnd")
             ELSE ListLoopStuck(encoded, current_index, Append(output, r.v),
                                strs \cup r.strs, fuel - 1)

\* the `while encoded[current_index] != TOKEN_END` loop of decodeList
ListLoop(encoded, current_index, output, strs, fuel) ==
    IF current_index >= Len(encoded) THEN Raise("IndexError")
    ELSE IF At(encoded, current_index) = TOKEN_END
    THEN Return(ListV(output), current_index + 1, strs)
    ELSE IF fuel = 0 THEN Raise("NoProgress")
    ELSE LET r == decodeNext(encoded, current_index, fuel - 1)
         IN  IF ~r.ok THEN r
             ELSE IF r.next >= Len(encoded) THEN Raise("MissingEnd")
             ELSE ListLoop(encoded, r.next, Append(output, r.v),
                           strs \cup r.strs, fuel - 1)

decodeList(encoded, index, fuel) ==
    IF index >= Len(encoded) THEN Raise("IndexError")
    ELSE IF At(encoded, index) # TOKEN_LIST THEN Raise("WrongToken")
    ELSE ListLoop(encoded, index + 1, << >>, {}, fuel)

\* the `while encoded[current_index] != TOKEN_END` loop of decodeDict
DictLoop(encoded, current_index, output, strs, fuel) ==
    IF current_index >= Len(encoded) THEN Raise("IndexError")
    ELSE IF At(encoded, current_index) = TOKEN_END
    THEN Return(DictV(output), current_index + 1, strs)
    ELSE IF fuel = 0 THEN Raise("NoProgress")
    ELSE LET key == decodeStr(encoded, current_index)
             value == decodeNext(encoded, key.next, fuel - 1)
         IN  IF ~key.ok THEN key
             ELSE IF ~value.ok THEN value
             ELSE IF value.next >= Len(encoded) THEN Raise("MissingEnd")
             ELSE DictLoop(encoded, value.next, DictSet(output, key.v.s, value.v),
                           strs \cup key.strs \cup value.strs, fuel - 1)

decodeDict(encoded, index, fuel) == DictLoop(encoded, index + 1, << >>, {}, fuel)

decodeNext(encoded, index, fuel) ==
    IF index >= Len(encoded) THEN Raise("IndexError")
    ELSE IF At(encoded, index) = TOKEN_INT THEN decodeInt(encoded, index)
    ELSE IF At(encoded, index) = TOKEN_LIST THEN decodeList(encoded, index, fuel)
    ELSE IF At(encoded, index) = TOKEN_DICT THEN decodeDict(encoded, index, fuel)
    ELSE decodeStr(encoded, index)

\* every loop iteration that returns moves the cursor by at least one byte
Fuel(encoded) == Len(encoded)

\* decode without the check of lines 101-102
decodeNoTrailingCheck(encoded) == decodeNext(encoded, 0, Fuel(encoded))

\* decode with the check of line 101 written `final < len(encoded)`
decodeAllowsOverrun(encoded) ==
    LET top == decodeNext(encoded, 0, Fuel(encoded))
    IN  IF ~top.ok THEN top
        ELSE IF top.next < Len(encoded) THEN Raise("TrailingData")
        ELSE top

decode(encoded) ==
    LET top == decodeNext(encoded, 0, Fuel(encoded))
    IN  IF ~top.ok THEN top
        ELSE IF top.next # Len(encoded) THEN Raise("TrailingData")
        ELSE top

\* ----------------------------------------------------------------- encode

\* a < b for bytes objects: lexicographic on the byte codes, a proper
\* prefix first
RECURSIVE BytesLess(_, _)
BytesLess(a, b) ==
    IF b = << >> THEN FALSE
    ELSE IF a = << >> THEN TRUE
    ELSE IF Head(a) # Head(b) THEN Head(a) < Head(b)
    ELSE BytesLess(Tail(a), Tail(b))

\* original.items() as it is, not sorted
UnsortedItems(pairs) == pairs

\* sorted(original.items(), key=lambda x: x[0]): stable, ascending by key
RECURSIVE SortedItems(_)
SortedItems(pairs) ==
    IF pairs = << >> THEN << >>
    ELSE LET m == SetMin({k \in 1..Len(pairs) :
                            \A j \in 1..Len(pairs) : ~BytesLess(pairs[j][1], pairs[k][1])})
             rest == [k \in 1..(Len(pairs) - 1) |->
                        IF k < m THEN pairs[k] ELSE pairs[k + 1]]
         IN  <<pairs[m]>> \o SortedItems(rest)

RECURSIVE Join(_)
Join(chunks) == IF chunks = << >> THEN << >> ELSE Head(chunks) \o Join(Tail(chunks))

\* line 110 without the ":" between the length and the bytes
encodeBytesNoSplit(original) == IntStr(Len(original)) \o original

encodeBytes(original) == IntStr(Len(original)) \o <<TOKEN_STR_SPLIT>> \o original

RECURSIVE encode(_)
encode(original) ==
    IF original.t = "str" THEN encodeBytes(original.s)
    ELSE IF original.t = "int"
    THEN <<TOKEN_INT>> \o IntStr(original.n) \o <<TOKEN_END>>
    ELSE IF original.t = "list"
    THEN <<TOKEN_LIST>>
         \o Join([k \in 1..Len(original.items) |-> encode(original.items[k])])
         \o <<TOKEN_END>>
    ELSE LET items == SortedItems(original.pairs)
         IN  <<TOKEN_DICT>>
             \o Join([k \in 1..Len(items) |->
                        encodeBytes(items[k][1]) \o encode(items[k][2])])
             \o <<TOKEN_END>>

\* ------------------------------------------------------------ TorrentFile

NoneV == [t |-> "none"]

\* hashlib.sha1(encoded).digest(): the digest stands for the bytes hashed
\* (SHA-1 taken as collision-free)
Sha1(bytes) == [t |-> "digest", v |-> bytes]

HasKey(dict, key) == \E k \in 1..Len(dict.pairs) : dict.pairs[k][1] = key

\* dict[key], for a key the dict holds
Lookup(dict, key) ==
    dict.pairs[CHOOSE k \in 1..Len(dict.pairs) : dict.pairs[k][1] = key][2]

\* b"info"
KeyInfo == <<105, 110, 102, 111>>

\* --------------------------------------------------------- inputs (bounds)

\* longest buffer of the exhaustive input family
MaxLen == 4
\* most elements of a generated list, most pairs of a generated dict
MaxItems == 2
\* containers wrapped around a generated value
MaxDepth == 1
\* longest body of a generated integer token i<body>e
MaxBody == 3

\* bytes of the exhaustive family: i l d e : 0 1 - a
Alphabet == {TOKEN_INT, TOKEN_LIST, TOKEN_DICT, TOKEN_END, TOKEN_STR_SPLIT,
             ChZero, 49, ChMinus, 97}
\* bytes of integer bodies: 0 1 2 - + _ space a
BodyAlphabet == {ChZero, 49, 50, ChMinus, ChPlus, ChUnderscore, 32, 97}

SeqsUpTo(S, n) == UNION {[1..k -> S] : k \in 0..n}

ShortBufs == SeqsUpTo(Alphabet, MaxLen)
IntTokens == {<<TOKEN_INT>> \o body \o <<TOKEN_END>> : body \in SeqsUpTo(BodyAlphabet, MaxBody)}

Atoms == {IntV(0), IntV(0 - 12), StrV(<< >>), StrV(<<TOKEN_END, TOKEN_STR_SPLIT>>)}
\* b"a", b"ab", b"b"
Keys == {<<97>>, <<97, 98>>, <<98>>}

ListsOf(S) == {ListV(items) : items \in SeqsUpTo(S, MaxItems)}
\* every insertion order of every choice of different keys
DictsOf(S) ==
    {DictV(pairs) : pairs \in
        {ps \in SeqsUpTo(Keys \X S, MaxItems) :
            \A j, k \in 1..Len(ps) : j # k => ps[j][1] # ps[k][1]}}

\* a value alone in a list, followed by another element in a list, and as
\* the value of the key inserted first (and sorted last) of a dict
RECURSIVE Nested(_)
Nested(depth) ==
    IF depth = 0 THEN Atoms \cup ListsOf(Atoms) \cup DictsOf(Atoms)
    ELSE LET inner == Nested(depth - 1)
         IN  inner \cup {ListV(<<x>>) : x \in inner}
                   \cup {ListV(<<x, IntV(0)>>) : x \in inner}
                   \cup {DictV(<< <<(<<98>>), x>>, <<(<< >>), StrV(<<97>>)>> >>) : x \in inner}

\* the two values of the __main__ example of bencoding.py
ExampleDecoded ==
    DictV(<< <<(<<98, 97, 114>>), StrV(<<115, 112, 97, 109>>)>>,
             <<(<<102, 111, 111>>), IntV(42)>>,
             <<(<<108, 105, 115, 116>>),
               ListV(<<StrV(<<111, 110, 101>>), StrV(<<116, 119, 111>>),
                       StrV(<<116, 104, 114, 101, 101>>)>>)>> >>)
ExampleToEncode ==
    DictV(<< <<(<<115, 112, 97, 109>>), StrV(<<101, 103, 103, 115>>)>>,
             <<(<<110, 97, 109, 101, 115>>),
               ListV(<<StrV(<<65, 108, 97, 110>>), StrV(<<66, 111, 98>>),
                       StrV(<<74, 111, 101>>)>>)>>,
             <<(<<109, 97, 103, 105, 99, 32, 110, 117, 109, 98, 101, 114>>), IntV(42)>> >>)

Values == Nested(MaxDepth) \cup {ExampleDecoded, ExampleToEncode}

Prefixes(b) == {SubSeq(b, 1, k) : k \in 0..Len(b)}
\* canonical encodings, each cut short at every length and each followed by
\* one more byte
Derived ==
    LET canon == {encode(v) : v \in Values}
    IN  UNION {Prefixes(b) : b \in canon} \cup {Append(b, c) : b \in canon, c \in Alphabet}

Inputs == ShortBufs \cup IntTokens \cup Derived

\* .torrent files: top-level dicts with and without b"info", an info that is
\* no dict, top-level values that are no dict, and bytes that do not decode
Infos == {DictV(<< >>)} \cup {DictV(<< <<k, x>> >>) : k \in Keys, x \in Atoms}
TorrentValues ==
    {DictV(<< <<KeyInfo, x>> >>) : x \in Infos \cup Atoms}
    \cup {DictV(<< <<(<<97>>), IntV(0)>>, <<KeyInfo, x>> >>) : x \in Infos}
    \cup {DictV(<< >>), DictV(<< <<(<<97>>), IntV(0)>> >>), ListV(<< >>), IntV(0)}
Files ==
    {encode(v) : v \in TorrentValues}
    \cup {<<TOKEN_DICT>>, <<TOKEN_DICT, TOKEN_END, TOKEN_END>>, << >>}

\* ------------------------------------------------------------------ state

VARIABLES
    encoded,     \* the argument of decode
    result,      \* what decode(encoded) came to
    reencoded,   \* encode of the decoded value
    pc,          \* "start", "decoded", "reencoded"
    original,    \* the argument of encode
    out,         \* encode(original)
    back,        \* decode(out)
    epc,         \* "start", "encoded", "decoded"
    data,        \* TorrentFile.data
    info,        \* TorrentFile.info
    info_hash,   \* TorrentFile.info_hash
    raised       \* what the last TorrentFile call raised, "none" if it returned

decVars == <<encoded, result, reencoded, pc>>
encVars == <<original, out, back, epc>>
torVars == <<data, info, info_hash, raised>>
vars == <<decVars, encVars, torVars>>

NotRun == Raise("NotRun")

DecodeIdle == encoded = << >> /\ result = NotRun /\ reencoded = << >> /\ pc = "idle"
EncodeIdle == original = IntV(0) /\ out = << >> /\ back = NotRun /\ epc = "idle"
\* TorrentFile.__init__
TorrentInit == data = NoneV /\ info = NoneV /\ info_hash = NoneV /\ raised = "none"

\* bytes -> decode -> encode
Init ==
    /\ encoded \in Inputs
    /\ result = NotRun
    /\ reencoded = << >>
    /\ pc = "start"
    /\ EncodeIdle
    /\ TorrentInit

Decode ==
    /\ pc = "start"
    /\ result' = decode(encoded)
    /\ pc' = "decoded"
    /\ UNCHANGED <<encoded, reencoded, encVars, torVars>>

Reencode ==
    /\ pc = "decoded"
    /\ result.ok
    /\ reencoded' = encode(result.v)
    /\ pc' = "reencoded"
    /\ UNCHANGED <<encoded, result, encVars, torVars>>

Next == Decode \/ Reencode

Spec == Init /\ [][Next]_vars

\* value -> encode -> decode
InitEncode ==
    /\ original \in Values
    /\ out = << >>
    /\ back = NotRun
    /\ epc = "start"
    /\ DecodeIdle
    /\ TorrentInit

Encode ==
    /\ epc = "start"
    /\ out' = encode(original)
    /\ epc' = "encoded"
    /\ UNCHANGED <<original, back, decVars, torVars>>

DecodeBack ==
    /\ epc = "encoded"
    /\ back' = decode(out)
    /\ epc' = "decoded"
    /\ UNCHANGED <<original, out, decVars, torVars>>

NextEncode == Encode \/ DecodeBack

SpecEncode == InitEncode /\ [][NextEncode]_vars

\* one TorrentFile object, loaded again and again while its file changes
InitTorrent == TorrentInit /\ DecodeIdle /\ EncodeIdle

\* the object's fields
Self == [data |-> data, info |-> info, info_hash |-> info_hash]

\* A TorrentFile call leaves the object as `self` with what it raised
\* ("none" if it returned).
Raised(self, kind) == [raised |-> kind] @@ self

\* compute_info_hash, lines 39-44
compute_info_hash(self) ==
    IF self.info.t # "dict" THEN Raised(self, "InfoNotADict")
    ELSE Raised([self EXCEPT !.info_hash = Sha1(encode(self.info))], "none")

\* load from line 22 on: decoded is what bencoding.decode(f.read()) returned
loadDecoded(self, decoded) ==
    IF decoded.t # "dict" THEN Raised(self, "NotADict")
    ELSE IF ~HasKey(decoded, KeyInfo)
    THEN Raised([self EXCEPT !.data = decoded], "NoInfo")
    ELSE IF Lookup(decoded, KeyInfo).t # "dict"
    THEN Raised([self EXCEPT !.data = decoded], "InfoNotADict")
    ELSE compute_info_hash([self EXCEPT !.data = decoded,
                                        !.info = Lookup(decoded, KeyInfo)])

\* what open(self.path).read() and bencoding.decode come to: opened is
\* whether open finds the file, contents what f.read() returns
readFile(opened, contents) == IF opened THEN decode(contents) ELSE Raise("OSError")

\* TorrentFile.load()
load(self, read) ==
    IF ~read.ok THEN Raised(self, read.err) ELSE loadDecoded(self, read.v)

Load ==
    /\ \E opened \in BOOLEAN, contents \in Files :
          LET after == load(Self, readFile(opened, contents))
          IN  /\ data' = after.data
              /\ info' = after.info
              /\ info_hash' = after.info_hash
              /\ raised' = after.raised
    /\ UNCHANGED <<decVars, encVars>>

\* TorrentFile.compute_info_hash(), called on its own
ComputeInfoHash ==
    /\ info_hash' = compute_info_hash(Self).info_hash
    /\ raised' = compute_info_hash(Self).raised
    /\ UNCHANGED <<data, info, decVars, encVars>>

NextTorrent == Load \/ ComputeInfoHash

SpecTorrent == InitTorrent /\ [][NextTorrent]_vars

\* ----------------------------------------------- the format, as specified
\* The wire format in canonical form, read off the buffer alone: what the
\* properties below measure decode and encode against.

\* a decimal numeral in minimal form: 0, or digits not starting with 0
MinimalNat(s) ==
    /\ s # << >>
    /\ \A k \in 1..Len(s) : s[k] \in digits
    /\ Len(s) > 1 => s[1] # ChZero

\* -?[0-9]+ with no leading zero and not -0
MinimalInt(s) ==
    \/ MinimalNat(s)
    \/ /\ Len(s) >= 2
       /\ s[1] = ChMinus
       /\ MinimalNat(Tail(s))
       /\ Tail(s) # <<ChZero>>

RECURSIVE Decimal(_)
Decimal(s) ==
    IF s = << >> THEN 0 ELSE 10 * Decimal(SubSeq(s, 1, Len(s) - 1)) + (s[Len(s)] - ChZero)

\* a sorts strictly before b, byte by byte
LexLess(a, b) ==
    \E k \in 1..Len(b) :
        /\ \A j \in 1..(k - 1) : j <= Len(a) /\ a[j] = b[j]
        /\ k > Len(a) \/ (k <= Len(a) /\ a[k] < b[k])

Bad == [st |-> "bad"]
\* the buffer ends where a value or a closing e is due
Eof == [st |-> "eof"]
Parsed(nxt) == [st |-> "ok", next |-> nxt]

\* a string token at offset i: "short" when it declares more bytes than
\* the buffer holds
CanonStr(b, i) ==
    LET colons == {j \in i..(Len(b) - 1) : At(b, j) = TOKEN_STR_SPLIT}
        colon == SetMin(colons)
        prefix == SubSeq(b, i + 1, colon)
        n == Decimal(prefix)
    IN  IF colons = {} THEN Bad
        ELSE IF ~MinimalNat(prefix) THEN Bad
        ELSE IF colon + 1 + n > Len(b) THEN [st |-> "short"]
        ELSE [st |-> "ok", next |-> colon + 1 + n,
              key |-> SubSeq(b, colon + 2, colon + 1 + n)]

CanonInt(b, i) ==
    LET ends == {j \in (i + 1)..(Len(b) - 1) : At(b, j) = TOKEN_END}
        e == SetMin(ends)
    IN  IF ends = {} THEN Bad
        ELSE IF MinimalInt(SubSeq(b, i + 2, e)) THEN Parsed(e + 1)
        ELSE Bad

RECURSIVE CanonEnd(_, _)
RECURSIVE CanonItems(_, _)
RECURSIVE CanonPairs(_, _, _, _)

CanonItems(b, cur) ==
    IF cur >= Len(b) THEN Eof
    ELSE IF At(b, cur) = TOKEN_END THEN Parsed(cur + 1)
    ELSE LET item == CanonEnd(b, cur)
         IN  IF item.st # "ok" THEN item ELSE CanonItems(b, item.next)

\* prev: the key read last, when hasPrev
CanonPairs(b, cur, hasPrev, prev) ==
    IF cur >= Len(b) THEN Eof
    ELSE IF At(b, cur) = TOKEN_END THEN Parsed(cur + 1)
    ELSE IF At(b, cur) \notin digits THEN Bad
    ELSE LET k == CanonStr(b, cur)
             v == CanonEnd(b, k.next)
         IN  IF k.st # "ok" THEN k
             ELSE IF hasPrev /\ ~LexLess(prev, k.key) THEN [st |-> "unsorted"]
             ELSE IF v.st # "ok" THEN v
             ELSE CanonPairs(b, v.next, TRUE, k.key)

\* where the canonical value starting at offset i ends
CanonEnd(b, i) ==
    IF i >= Len(b) THEN Eof
    ELSE IF At(b, i) = TOKEN_INT THEN CanonInt(b, i)
    ELSE IF At(b, i) = TOKEN_LIST THEN CanonItems(b, i + 1)
    ELSE IF At(b, i) = TOKEN_DICT THEN CanonPairs(b, i + 1, FALSE, << >>)
    ELSE IF At(b, i) \in digits THEN CanonStr(b, i)
    ELSE Bad

\* one canonical value and nothing else
IsCanonical(b) == CanonEnd(b, 0).st = "ok" /\ CanonEnd(b, 0).next = Len(b)

Decoded == pc \in {"decoded", "reencoded"}

\* ----------------------------------------------------------------- claims

\* C1: a canonical buffer that decode accepts is reproduced byte for byte
\* by encode(decode(b)).
C1_CanonicalRoundTrip ==
    (pc = "reencoded" /\ IsCanonical(encoded)) => reencoded = encoded

\* C1 witness: a canonical map of two or more keys, the second holding a
\* container, has been decoded and encoded again.
C1_Witness ==
    /\ pc = "reencoded"
    /\ IsCanonical(encoded)
    /\ result.v.t = "dict"
    /\ Len(result.v.pairs) >= 2
    /\ result.v.pairs[2][2].t \in {"list", "dict"}

\* a == b for Python values: a dict equals a dict holding the same pairs,
\* whatever the insertion order
RECURSIVE ValueEq(_, _)
ValueEq(a, b) ==
    /\ a.t = b.t
    /\ a.t = "int" => a.n = b.n
    /\ a.t = "str" => a.s = b.s
    /\ a.t = "list" =>
         /\ Len(a.items) = Len(b.items)
         /\ \A k \in 1..Len(a.items) : ValueEq(a.items[k], b.items[k])
    /\ a.t = "dict" =>
         /\ Len(a.pairs) = Len(b.pairs)
         /\ \A j \in 1..Len(a.pairs) : \E k \in 1..Len(b.pairs) :
              /\ a.pairs[j][1] = b.pairs[k][1]
              /\ ValueEq(a.pairs[j][2], b.pairs[k][2])

Encoded == epc \in {"encoded", "decoded"}

\* a dict of two or more pairs whose first two keys were inserted in
\* descending order
InsertedUnsorted(v) ==
    /\ v.t = "dict"
    /\ Len(v.pairs) >= 2
    /\ LexLess(v.pairs[2][1], v.pairs[1][1])

\* C2: decode(encode(v)) returns a value equal to v.
C2_DecodeEncode == epc = "decoded" => (back.ok /\ ValueEq(back.v, original))

\* C2 witness: a dict populated in unsorted key order went through encode
\* and decode.
C2_Witness == epc = "decoded" /\ InsertedUnsorted(original) /\ back.ok

\* C3: encode emits the pairs of every map in strictly ascending key order,
\* and the same bytes for every insertion order of the same pairs.
C3_SortedKeys ==
    Encoded =>
        /\ IsCanonical(out)
        /\ original.t = "dict" =>
             \A p \in Permutations(1..Len(original.pairs)) :
                encode(DictV([k \in 1..Len(original.pairs) |-> original.pairs[p[k]]])) = out

\* C3 witness: a dict populated in unsorted key order has been encoded.
C3_Witness == epc = "encoded" /\ InsertedUnsorted(original)

\* The five kinds of malformed input of C4, each with the example the
\* specification gives for the other kinds to be told from.
LeadingZeroInput(b) ==
    /\ Len(b) >= 4
    /\ b[1] = TOKEN_INT /\ b[2] = ChZero /\ b[Len(b)] = TOKEN_END
    /\ \A k \in 3..(Len(b) - 1) : b[k] \in digits
NegativeZeroInput(b) == b = <<TOKEN_INT, ChMinus, ChZero, TOKEN_END>>
TruncatedStringInput(b) == b # << >> /\ b[1] \in digits /\ CanonStr(b, 0).st = "short"
UnclosedListInput(b) == b # << >> /\ b[1] = TOKEN_LIST /\ IsCanonical(Append(b, TOKEN_END))
TrailingInput(b) == CanonEnd(b, 0).st = "ok" /\ CanonEnd(b, 0).next < Len(b)

MalformedKinds == {"leading zero", "negative zero", "truncated string", "unclosed list", "trailing"}
InKind(kind, b) ==
    CASE kind = "leading zero" -> LeadingZeroInput(b)
      [] kind = "negative zero" -> NegativeZeroInput(b)
      [] kind = "truncated string" -> TruncatedStringInput(b)
      [] kind = "unclosed list" -> UnclosedListInput(b)
      [] kind = "trailing" -> TrailingInput(b)
\* i03e, i-0e, 2:a, li0e, i0ee
KindExample(kind) ==
    CASE kind = "leading zero" -> <<TOKEN_INT, ChZero, 51, TOKEN_END>>
      [] kind = "negative zero" -> <<TOKEN_INT, ChMinus, ChZero, TOKEN_END>>
      [] kind = "truncated string" -> <<50, TOKEN_STR_SPLIT, 97>>
      [] kind = "unclosed list" -> <<TOKEN_LIST, TOKEN_INT, ChZero, TOKEN_END>>
      [] kind = "trailing" -> <<TOKEN_INT, ChZero, TOKEN_END, TOKEN_END>>

\* C4: an input of one of the five malformed kinds is rejected, with an
\* error that no input of another of the kinds is rejected with.
C4_DistinctErrors ==
    Decoded =>
        \A kind \in MalformedKinds :
            InKind(kind, encoded) =>
                /\ ~result.ok
                /\ \A other \in MalformedKinds \ {kind} :
                      result.err # decode(KindExample(other)).err

\* the body of a lone integer token i<body>e
IsIntToken(b) ==
    /\ Len(b) >= 2
    /\ b[1] = TOKEN_INT
    /\ b[Len(b)] = TOKEN_END
    /\ \A k \in 2..(Len(b) - 1) : b[k] # TOKEN_END
IntBody(b) == SubSeq(b, 2, Len(b) - 1)

\* C5: an integer token is accepted only if its body is -?[0-9]+ with no
\* leading zero and is not -0.
C5_StrictIntegers ==
    (Decoded /\ IsIntToken(encoded) /\ result.ok) => MinimalInt(IntBody(encoded))

\* C6: decode returns a value only when the top-level value ends at the end
\* of the buffer; when it ends anywhere else decode raises the
\* trailing-data error.
C6_WholeBuffer ==
    Decoded =>
        LET top == decodeNext(encoded, 0, Fuel(encoded))
        IN  /\ result.ok => (top.ok /\ top.next = Len(encoded))
            /\ (top.ok /\ top.next # Len(encoded)) => result = Raise("TrailingData")

\* C6 witness: a complete value followed by more bytes was rejected as
\* trailing data.
C6_Witness ==
    /\ Decoded
    /\ TrailingInput(encoded)
    /\ result = Raise("TrailingData")

\* the offset of the first ":" at or after offset i
ColonAfter(b, i) == SetMin({j \in i..(Len(b) - 1) : At(b, j) = TOKEN_STR_SPLIT})

\* C7: when decode succeeds every string it read has the length its prefix
\* declares, all of it inside the buffer; a buffer whose canonical reading
\* meets a string declared longer than the bytes left is rejected.
C7_NoTruncation ==
    Decoded =>
        /\ result.ok =>
             \A c \in result.strs :
                /\ c.got = c.declared
                /\ ColonAfter(encoded, c.at) + 1 + c.declared <= Len(encoded)
        /\ CanonEnd(encoded, 0).st = "short" => ~result.ok

\* C7 witness: decode succeeded on a buffer holding two or more strings, a
\* nested one of two or more bytes.
C7_Witness ==
    /\ Decoded
    /\ result.ok
    /\ Cardinality(result.strs) >= 2
    /\ \E c \in result.strs : c.at > 1 /\ c.declared >= 2

\* C8: a buffer that ends where an opened list or map still awaits an
\* element or its closing e (the empty buffer included) is rejected with
\* the missing-end-token error, without reading past the buffer.
C8_MissingEndError ==
    (Decoded /\ CanonEnd(encoded, 0).st = "eof") => result = Raise("MissingEnd")

Advances(r, index) == IF r.ok THEN r.next > index ELSE r.err # "NoProgress"

\* C9: every sub-decoder that returns, at whatever offset it is called,
\* returns an offset past the one it was called at, and decode ends within
\* its bound of loop iterations.
C9_Progress ==
    Decoded =>
        /\ Advances(result, 0 - 1)
        /\ \A index \in 0..(Len(encoded) - 1) :
              /\ Advances(decodeInt(encoded, index), index)
              /\ Advances(decodeStr(encoded, index), index)
              /\ Advances(decodeList(encoded, index, Fuel(encoded)), index)
              /\ Advances(decodeDict(encoded, index, Fuel(encoded)), index)
              /\ Advances(decodeNext(encoded, index, Fuel(encoded)), index)

\* C9 witness: decode returned a list whose loop ran twice, the first time
\* over a nested container.
C9_Witness ==
    /\ Decoded
    /\ result.ok
    /\ result.v.t = "list"
    /\ Len(result.v.items) >= 2
    /\ result.v.items[1].t \in {"list", "dict"}
    /\ result.v.items[1] \notin {ListV(<< >>), DictV(<< >>)}

\* C10: whenever info is set, it is the b"info" value of the stored data
\* and info_hash is the digest of its encoding.
C10_FieldsConsistent ==
    info.t # "none" =>
        /\ data.t = "dict"
        /\ HasKey(data, KeyInfo)
        /\ Lookup(data, KeyInfo) = info
        /\ info_hash = Sha1(encode(info))
=============================================================================
